---- MODULE Spec2Model ----
(***************************************************************************)
(* The cart-to-order subsystem of the storefront: the session cart         *)
(* (app/utils.py), the cart and checkout routes (app/main.py) and the      *)
(* Product / Order / OrderItem tables (app/models.py).                     *)
(*                                                                         *)
(* Money is counted in cents.  The cart keeps a price as the string        *)
(* str(Decimal); a decimal string is modelled as the sequence of its       *)
(* characters, formatted by DecimalStr and parsed back by Decimal.         *)
(*                                                                         *)
(* A checkout request is split at its database calls (flush, one SELECT    *)
(* per cart line, commit), where requests of other visitors interleave.    *)
(* An exception leaves the request in pc = "IntegrityError" or             *)
(* "PersistenceError" with its transaction still open; the teardown of    *)
(* the request then rolls the transaction back.                            *)
(*                                                                         *)
(* Spec follows the cart and checkout routes.  SpecFn calls the functions  *)
(* of app/utils.py and the price properties of Product on their own, on    *)
(* arguments drawn in its initial state.                                   *)
(***************************************************************************)
EXTENDS Integers, Sequences, FiniteSets, TLC

\* ------------------------------------------------------------------ bounds
NumProducts == 2
NumSessions == 1
NumReqs     == 2
\* the session cart holds quantities in -NegQty..MaxQty
NegQty      == 1
MaxQty      == 2
\* the stock the first product starts with
MaxStock    == 3
\* orders the store holds (committed or being written)
MaxOrders   == 2
\* random.randint draws one of NumSuffix suffixes
NumSuffix   == 2
\* categories of the catalogue
NumCategories == 1

Products == 1..NumProducts
Sessions == 1..NumSessions
Reqs     == 1..NumReqs
Categories == 1..NumCategories
\* the qty form values of cart_add and cart_update
QtyInputs == -NegQty..MaxQty

VARIABLES
  engine,       \* the database DATABASE_URL names: "sqlite" or "server"
  settings,     \* site_settings rows: key -> value (decimal strings)
  categories,   \* categories table: the ids of its rows
  products,     \* products table: id -> row
  orders,       \* orders table: set of committed rows
  order_items,  \* order_items table: set of committed rows
  cart,         \* session -> the cart dict of that visitor's session
  pc,           \* request -> position in checkout()
  sess,         \* request -> the session the request belongs to
  reqCart,      \* request -> cart_data, the cart the request loaded
  reqSettings,  \* request -> settings, as read at the start of the request
  totals,       \* request -> totals, the quote of cart_totals
  txOrder,      \* request -> <<>> or <<the Order row flushed in its transaction>>
  txItems,      \* request -> the OrderItems added to its db.session, in order
  txProducts,   \* request -> the Product objects it loaded: id -> [loaded, stock]
  call,         \* a function or property called on its own: [fn, arguments]
  ret           \* <<>> before the call returns, then <<its result>>

vars == <<engine, settings, categories, products, orders, order_items, cart,
          pc, sess, reqCart, reqSettings, totals, txOrder, txItems, txProducts,
          call, ret>>

dbVars  == <<products, orders, order_items>>
reqVars == <<pc, sess, reqCart, reqSettings, totals, txOrder, txItems, txProducts>>
envVars == <<engine, settings, categories, call, ret>>

\* ------------------------------------------------------------- helpers
Max(a, b) == IF a >= b THEN a ELSE b

EmptyDict == <<>>

Put(f, k, v) == [x \in (DOMAIN f) \cup {k} |-> IF x = k THEN v ELSE f[x]]

\* dict.pop(key, None)
Pop(f, k) == [x \in (DOMAIN f) \ {k} |-> f[x]]

RECURSIVE SumOver(_, _)
SumOver(S, f) ==
  IF S = {} THEN 0
  ELSE LET x == CHOOSE y \in S : TRUE IN f[x] + SumOver(S \ {x}, f)

DigitChars == <<"0", "1", "2", "3", "4", "5", "6", "7", "8", "9">>

DigitVal(ch) == CHOOSE d \in 0..9 : DigitChars[d + 1] = ch

RECURSIVE NatStr(_)
NatStr(n) ==
  IF n < 10 THEN <<DigitChars[n + 1]>>
  ELSE NatStr(n \div 10) \o <<DigitChars[(n % 10) + 1]>>

RECURSIVE ParseNat(_)
ParseNat(s) ==
  IF s = <<>> THEN 0
  ELSE ParseNat(SubSeq(s, 1, Len(s) - 1)) * 10 + DigitVal(s[Len(s)])

\* str(price) of a Numeric(10, 2) value: "<units>.<two digits>"
DecimalStr(c) ==
  NatStr(c \div 100) \o <<".">> \o
  <<DigitChars[((c % 100) \div 10) + 1], DigitChars[(c % 10) + 1]>>

\* Decimal(string), in cents
Decimal(s) ==
  LET dots == {i \in 1..Len(s) : s[i] = "."}
  IN  IF dots = {} THEN ParseNat(s) * 100
      ELSE LET i    == CHOOSE j \in dots : TRUE
               frac == SubSeq(s, i + 1, Len(s))
           IN  ParseNat(SubSeq(s, 1, i - 1)) * 100
               + (IF Len(frac) = 0 THEN 0
                  ELSE IF Len(frac) = 1 THEN DigitVal(frac[1]) * 10
                  ELSE DigitVal(frac[1]) * 10 + DigitVal(frac[2]))

\* str(product_id) and int(pid_str), for ids of one digit
PidStr(pid) == DigitChars[pid + 1]
PidInt(key) == DigitVal(key)

Keys == {PidStr(p) : p \in Products}

\* a nullable column: {} is NULL, {v} holds v
Truthy(x) == x # {} /\ x # {0}
Val(x) == CHOOSE v \in x : TRUE

\* ------------------------------------------------------- app/models.py
\* Product.active_price
active_price_lowest(product) ==
  LET prices == {product.original_price}
                \cup (IF Truthy(product.discounted_price)
                        THEN product.discounted_price ELSE {})
                \cup (IF Truthy(product.deal_price) THEN product.deal_price ELSE {})
  IN  CHOOSE x \in prices : \A y \in prices : x <= y

active_price(product) ==
  IF Truthy(product.deal_price) THEN Val(product.deal_price)
  ELSE IF Truthy(product.discounted_price) THEN Val(product.discounted_price)
  ELSE product.original_price

\* int(x) of the quotient a / b: truncation toward zero
TruncDiv(a, b) ==
  LET q == (IF a >= 0 THEN a ELSE -a) \div (IF b >= 0 THEN b ELSE -b)
  IN  IF (a >= 0) = (b >= 0) THEN q ELSE -q

\* Product.discount_percent; the Decimal quotient keeps 28 digits, which for
\* Numeric(10, 2) prices truncates to the same integer as the exact quotient
discount_percent_rounded(product) ==
  IF product.original_price # 0 /\ active_price(product) < product.original_price
    THEN TruncDiv((product.original_price - active_price(product)) * 100
                    + (product.original_price \div 2),
                  product.original_price)
    ELSE 0

discount_percent(product) ==
  IF product.original_price # 0 /\ active_price(product) < product.original_price
    THEN TruncDiv((product.original_price - active_price(product)) * 100,
                  product.original_price)
    ELSE 0

\* Order.generate_order_number: "ORD-<today>-<rand>", rand = random.randint(...);
\* the checkouts of the model fall on one day, Today
Today == <<"2", "0", "2", "4", "0", "1", "1", "5">>
generate_order_number(rand) == <<"O", "R", "D", "-">> \o Today \o <<"-">> \o NatStr(rand)

\* the suffixes random.randint(1000, 9999) is let to return
Suffixes == {1000 + i : i \in 0..(NumSuffix - 1)}

\* ------------------------------------------------------- app/utils.py
\* add_to_cart(product_id, name, price, image, qty) on the cart dict c
add_to_cart_refreshed(c, product_id, name, price, image, qty) ==
  LET key == PidStr(product_id)
  IN  Put(c, key, [name  |-> name,
                   price |-> DecimalStr(price),
                   image |-> image,
                   qty   |-> IF key \in DOMAIN c THEN c[key].qty + qty ELSE qty])

add_to_cart(c, product_id, name, price, image, qty) ==
  LET key == PidStr(product_id)
  IN  IF key \in DOMAIN c
        THEN [c EXCEPT ![key].qty = c[key].qty + qty]
        ELSE Put(c, key, [name  |-> name,
                          price |-> DecimalStr(price),
                          image |-> image,
                          qty   |-> qty])

\* update_cart(product_id, qty) on the cart dict c
update_cart_sets(c, product_id, qty) ==
  LET key == PidStr(product_id)
  IN  IF key \in DOMAIN c THEN [c EXCEPT ![key].qty = qty] ELSE c

update_cart(c, product_id, qty) ==
  LET key == PidStr(product_id)
  IN  IF qty <= 0 THEN Pop(c, key)
      ELSE IF key \in DOMAIN c THEN [c EXCEPT ![key].qty = qty]
      ELSE c

\* remove_from_cart(product_id) on the cart dict c
remove_from_cart(c, product_id) == Pop(c, PidStr(product_id))

\* clear_cart(): the cart dict the session holds afterwards
clear_cart_kept(c) == c

clear_cart(c) == EmptyDict

\* cart_totals(delivery_cost_str, free_threshold_str) for the cart dict c
cart_totals_no_delivery(c, delivery_cost_str, free_threshold_str) ==
  LET subtotal == SumOver(DOMAIN c, [k \in DOMAIN c |-> Decimal(c[k].price) * c[k].qty])
  IN  [subtotal   |-> subtotal,
       delivery   |-> Decimal(IF delivery_cost_str = <<>> THEN <<"0">> ELSE delivery_cost_str),
       total      |-> subtotal,
       item_count |-> SumOver(DOMAIN c, [k \in DOMAIN c |-> c[k].qty])]

cart_totals_free_at_zero(c, delivery_cost_str, free_threshold_str) ==
  LET subtotal  == SumOver(DOMAIN c, [k \in DOMAIN c |-> Decimal(c[k].price) * c[k].qty])
      cost      == Decimal(IF delivery_cost_str = <<>> THEN <<"0">> ELSE delivery_cost_str)
      threshold == Decimal(IF free_threshold_str = <<>> THEN <<"0">> ELSE free_threshold_str)
      delivery  == IF subtotal >= threshold THEN 0 ELSE cost
  IN  [subtotal   |-> subtotal,
       delivery   |-> delivery,
       total      |-> subtotal + delivery,
       item_count |-> SumOver(DOMAIN c, [k \in DOMAIN c |-> c[k].qty])]

cart_totals_count_lines(c, delivery_cost_str, free_threshold_str) ==
  LET subtotal  == SumOver(DOMAIN c, [k \in DOMAIN c |-> Decimal(c[k].price) * c[k].qty])
      cost      == Decimal(IF delivery_cost_str = <<>> THEN <<"0">> ELSE delivery_cost_str)
      threshold == Decimal(IF free_threshold_str = <<>> THEN <<"0">> ELSE free_threshold_str)
      delivery  == IF threshold > 0 /\ subtotal >= threshold THEN 0 ELSE cost
  IN  [subtotal   |-> subtotal,
       delivery   |-> delivery,
       total      |-> subtotal + delivery,
       item_count |-> Cardinality(DOMAIN c)]

cart_totals(c, delivery_cost_str, free_threshold_str) ==
  LET subtotal  == SumOver(DOMAIN c, [k \in DOMAIN c |-> Decimal(c[k].price) * c[k].qty])
      cost      == Decimal(IF delivery_cost_str = <<>> THEN <<"0">> ELSE delivery_cost_str)
      threshold == Decimal(IF free_threshold_str = <<>> THEN <<"0">> ELSE free_threshold_str)
      delivery  == IF threshold > 0 /\ subtotal >= threshold THEN 0 ELSE cost
  IN  [subtotal   |-> subtotal,
       delivery   |-> delivery,
       total      |-> subtotal + delivery,
       item_count |-> SumOver(DOMAIN c, [k \in DOMAIN c |-> c[k].qty])]

\* ------------------------------------------------------- initial state
\* the catalogue the store starts with: each category holds one product, the
\* products beyond them have no category; stock is drawn in Init
Catalogue(p, stock) ==
  [name             |-> "product-" \o PidStr(p),
   sku              |-> {"sku-" \o PidStr(p)},
   original_price   |-> IF p = 1 THEN 3000 ELSE 550,
   discounted_price |-> IF p = 1 THEN {2500} ELSE {},
   deal_price       |-> {},
   image            |-> {},
   stock            |-> stock,
   category_id      |-> IF p \in Categories THEN {p} ELSE {},
   id               |-> p]

\* the stocks the catalogue starts with: the first product is tracked and starts
\* with MaxStock, another product is untracked (0) or holds its last piece
InitialStocks ==
  {st \in [Products -> 0..MaxStock] :
     /\ st[1] = MaxStock
     /\ \A p \in Products \ {1} : st[p] \in {0, 1}}

\* _seed_defaults
SeedSettings ==
  [delivery_cost           |-> <<"5", ".", "0", "0">>,
   free_delivery_threshold |-> <<"5", "0", ".", "0", "0">>]

NoTotals == [subtotal |-> 0, delivery |-> 0, total |-> 0, item_count |-> 0]

\* no function is called on its own
NoCall == [fn |-> "none"]

Init ==
  /\ engine \in {"sqlite", "server"}
  /\ settings = SeedSettings
  /\ categories = Categories
  /\ \E st \in InitialStocks : products = [p \in Products |-> Catalogue(p, st[p])]
  /\ orders = {}
  /\ order_items = {}
  /\ cart = [s \in Sessions |-> EmptyDict]
  /\ pc = [r \in Reqs |-> "idle"]
  /\ sess = [r \in Reqs |-> 1]
  /\ reqCart = [r \in Reqs |-> EmptyDict]
  /\ reqSettings = [r \in Reqs |-> SeedSettings]
  /\ totals = [r \in Reqs |-> NoTotals]
  /\ txOrder = [r \in Reqs |-> <<>>]
  /\ txItems = [r \in Reqs |-> <<>>]
  /\ txProducts = [r \in Reqs |-> EmptyDict]
  /\ call = NoCall
  /\ ret = <<>>

\* --------------------------------------------- cart routes, app/main.py
\* a checkout of session s is being handled: the visitor waits for its answer
\* before changing the cart again (a checkout may still be submitted twice)
CheckingOut(s) == \E r \in Reqs : pc[r] # "idle" /\ sess[r] = s

\* the model follows the store until it holds MaxOrders orders
StoreFull == Cardinality(orders) >= MaxOrders

\* POST /cart/add/<product_id> with form value qty
cart_add(s, product_id, qty) ==
  /\ ~CheckingOut(s) /\ ~StoreFull
  /\ product_id \in DOMAIN products
  /\ LET product == products[product_id]
         c == add_to_cart(cart[s], product.id, product.name,
                          active_price(product),
                          IF product.image = {} THEN "" ELSE Val(product.image), qty)
     IN  /\ \A k \in DOMAIN c : c[k].qty \in -NegQty..MaxQty
         /\ cart' = [cart EXCEPT ![s] = c]
  /\ UNCHANGED <<dbVars, reqVars, envVars>>

\* POST /cart/update/<product_id> with form value qty
cart_update(s, product_id, qty) ==
  /\ ~CheckingOut(s) /\ ~StoreFull
  /\ cart' = [cart EXCEPT ![s] = update_cart(cart[s], product_id, qty)]
  /\ UNCHANGED <<dbVars, reqVars, envVars>>

\* POST /cart/remove/<product_id>
cart_remove(s, product_id) ==
  /\ ~CheckingOut(s) /\ ~StoreFull
  /\ cart' = [cart EXCEPT ![s] = remove_from_cart(cart[s], product_id)]
  /\ UNCHANGED <<dbVars, reqVars, envVars>>


\* --------------------------------------------- checkout, app/main.py
\* the request holds an open transaction that has written the orders table
InTx(r) == pc[r] \in {"items", "commit", "IntegrityError", "PersistenceError"}
           /\ txOrder[r] # <<>>

\* a fresh primary key for a table whose rows (committed or flushed) have ids S;
\* a key is an opaque surrogate, the model hands out the least one not in use
NextId(S) == CHOOSE i \in 1..(Cardinality(S) + 1) :
               i \notin S /\ \A j \in 1..(i - 1) : j \in S

OrderIds == {o.id : o \in orders} \cup {txOrder[r][1].id : r \in {q \in Reqs : txOrder[q] # <<>>}}

\* the unique index on orders.order_number rejects the INSERT of number n
order_number_taken_never(n) == FALSE

order_number_taken(n) == \E o \in orders : o.order_number = n

\* db.session.flush(): the INSERT belongs to the open transaction, the orders
\* table the other requests (and a rollback) see is unchanged
orders_flushed_committed(row) == orders \cup {row}

orders_flushed(row) == orders

\* the stock written for a line of quantity qty on a product with stock s
decrement_stock_unfloored(s, qty) == IF s > 0 THEN s - qty ELSE s

decrement_stock(s, qty) == IF s > 0 THEN Max(0, s - qty) ELSE s

\* OrderItem.line_total for the cart entry item
line_total_of_one(item) == Decimal(item.price)

line_total(item) == Decimal(item.price) * item.qty

\* db.session.get(Product, pid): <<>> is None, <<row>> the product
get_product_or_any(pid) ==
  IF pid \in DOMAIN products THEN <<products[pid]>>
  ELSE IF DOMAIN products # {} THEN <<products[CHOOSE p \in DOMAIN products : TRUE]>>
  ELSE <<>>

get_product(pid) == IF pid \in DOMAIN products THEN <<products[pid]>> ELSE <<>>

\* OrderItem(...) for the cart entry item and the product found for it
order_item_live(order_id, item, product) ==
  [order_id     |-> order_id,
   product_id   |-> IF product # <<>> THEN {product[1].id} ELSE {},
   product_name |-> IF product # <<>> THEN product[1].name ELSE item.name,
   product_sku  |-> IF product # <<>> THEN product[1].sku ELSE {},
   unit_price   |-> IF product # <<>> THEN active_price(product[1])
                    ELSE Decimal(item.price),
   quantity     |-> item.qty,
   line_total   |-> line_total(item)]

order_item_clamped(order_id, item, product) ==
  [order_id     |-> order_id,
   product_id   |-> IF product # <<>> THEN {product[1].id} ELSE {},
   product_name |-> item.name,
   product_sku  |-> IF product # <<>> THEN product[1].sku ELSE {},
   unit_price   |-> Decimal(item.price),
   quantity     |-> IF product # <<>> /\ item.qty > product[1].stock
                      THEN product[1].stock ELSE item.qty,
   line_total   |-> line_total(item)]

order_item(order_id, item, product) ==
  [order_id     |-> order_id,
   product_id   |-> IF product # <<>> THEN {product[1].id} ELSE {},
   product_name |-> item.name,
   product_sku  |-> IF product # <<>> THEN product[1].sku ELSE {},
   unit_price   |-> Decimal(item.price),
   quantity     |-> item.qty,
   line_total   |-> line_total(item)]

\* generate_order_number() is called once per checkout
OrderNumberAttempts == 1

\* the cart keys in the order the loop visits them
KeySeq_first(S) ==
  IF S = {} THEN <<>>
  ELSE <<CHOOSE x \in S : \A y \in S : PidInt(x) <= PidInt(y)>>

RECURSIVE KeySeq(_)
KeySeq(S) ==
  IF S = {} THEN <<>>
  ELSE LET k == CHOOSE x \in S : \A y \in S : PidInt(x) <= PidInt(y)
       IN  <<k>> \o KeySeq(S \ {k})

ResetReq(r) ==
  /\ sess' = [sess EXCEPT ![r] = 1]
  /\ reqCart' = [reqCart EXCEPT ![r] = EmptyDict]
  /\ reqSettings' = [reqSettings EXCEPT ![r] = SeedSettings]
  /\ totals' = [totals EXCEPT ![r] = NoTotals]
  /\ txOrder' = [txOrder EXCEPT ![r] = <<>>]
  /\ txItems' = [txItems EXCEPT ![r] = <<>>]
  /\ txProducts' = [txProducts EXCEPT ![r] = EmptyDict]

\* "if not cart_data": the cart dict is empty
not_cart_data_never(cart_data) == FALSE

not_cart_data(cart_data) == cart_data = EmptyDict

\* GET or POST /checkout with an empty cart: flash and redirect
checkout_empty(s) ==
  /\ not_cart_data(cart[s])
  /\ UNCHANGED vars

\* GET /checkout, or a POST whose form does not validate: the page is rendered
checkout_render(s) ==
  /\ ~not_cart_data(cart[s])
  /\ UNCHANGED vars

\* POST /checkout with a valid form: settings, cart and totals are read
checkout_begin(r, s) ==
  /\ pc[r] = "idle"
  /\ ~not_cart_data(cart[s])
  /\ Cardinality(orders) + Cardinality({q \in Reqs : pc[q] # "idle"}) < MaxOrders
  /\ pc' = [pc EXCEPT ![r] = "flush"]
  /\ sess' = [sess EXCEPT ![r] = s]
  /\ reqCart' = [reqCart EXCEPT ![r] = cart[s]]
  /\ reqSettings' = [reqSettings EXCEPT ![r] = settings]
  /\ totals' = [totals EXCEPT ![r] =
                  cart_totals(cart[s], settings.delivery_cost,
                              settings.free_delivery_threshold)]
  /\ UNCHANGED <<txOrder, txItems, txProducts, dbVars, cart, envVars>>

\* Order(...), db.session.add(order), db.session.flush()
checkout_flush(r) ==
  /\ pc[r] = "flush"
  /\ \E rand \in Suffixes :
       LET n == generate_order_number(rand)
           row == [id              |-> NextId(OrderIds),
                   order_number    |-> n,
                   status          |-> "pending",
                   subtotal        |-> totals[r].subtotal,
                   delivery_cost   |-> totals[r].delivery,
                   discount_amount |-> 0,
                   total_amount    |-> totals[r].total,
                   admin_notes     |-> {},
                   tracking_number |-> {}]
       IN  \* SQLite has one writer; a server waits on the other writer's index entry
           /\ engine = "sqlite" => \A q \in Reqs \ {r} : ~InTx(q)
           /\ engine = "server" =>
                \A q \in Reqs \ {r} : InTx(q) => txOrder[q][1].order_number # n
           /\ IF order_number_taken(n)
                THEN /\ pc' = [pc EXCEPT ![r] = "IntegrityError"]
                     /\ UNCHANGED <<txOrder, orders>>
                ELSE /\ pc' = [pc EXCEPT ![r] =
                                 IF reqCart[r] = EmptyDict THEN "commit" ELSE "items"]
                     /\ txOrder' = [txOrder EXCEPT ![r] = <<row>>]
                     /\ orders' = orders_flushed(row)
  /\ UNCHANGED <<sess, reqCart, reqSettings, totals, txItems, txProducts,
                 products, order_items, cart, envVars>>

\* one pass of the loop over cart_data.items()
checkout_item(r) ==
  /\ pc[r] = "items"
  /\ LET keys    == KeySeq(DOMAIN reqCart[r])
         pid_str == keys[Len(txItems[r]) + 1]
         item    == reqCart[r][pid_str]
         pid     == PidInt(pid_str)
         product == get_product(pid)
         oi      == order_item(txOrder[r][1].id, item, product)
     IN  /\ txItems' = [txItems EXCEPT ![r] = Append(@, oi)]
         /\ txProducts' =
              IF product # <<>>
                THEN [txProducts EXCEPT ![r] =
                        Put(@, pid, [loaded |-> product[1].stock,
                                     stock  |-> decrement_stock(product[1].stock,
                                                                item.qty)])]
                ELSE txProducts
         /\ pc' = [pc EXCEPT ![r] =
                     IF Len(txItems[r]) + 1 = Len(keys) THEN "commit" ELSE "items"]
  /\ UNCHANGED <<sess, reqCart, reqSettings, totals, txOrder, dbVars, cart, envVars>>

\* db.session.commit(): the items and the changed stocks are written, then COMMIT
checkout_commit(r) ==
  /\ pc[r] = "commit"
  \* a product the request loaded has been deleted since: the flush of the
  \* commit raises (foreign key, or an UPDATE that matches no row)
  /\ \A p \in DOMAIN txProducts[r] : p \in DOMAIN products
  /\ LET base == Cardinality(order_items)
         written == {p \in DOMAIN txProducts[r] :
                       txProducts[r][p].stock # txProducts[r][p].loaded}
     IN  /\ orders' = orders \cup {txOrder[r][1]}
         /\ order_items' = order_items \cup
              {[id           |-> base + i,
                order_id     |-> txItems[r][i].order_id,
                product_id   |-> txItems[r][i].product_id,
                product_name |-> txItems[r][i].product_name,
                product_sku  |-> txItems[r][i].product_sku,
                unit_price   |-> txItems[r][i].unit_price,
                quantity     |-> txItems[r][i].quantity,
                line_total   |-> txItems[r][i].line_total] : i \in 1..Len(txItems[r])}
         /\ products' = [p \in DOMAIN products |->
                           IF p \in written
                             THEN [products[p] EXCEPT !.stock = txProducts[r][p].stock]
                             ELSE products[p]]
  /\ pc' = [pc EXCEPT ![r] = "clear"]
  /\ UNCHANGED <<sess, reqCart, reqSettings, totals, txOrder, txItems, txProducts,
                 cart, envVars>>

\* clear_cart() and the redirect to the confirmation page
checkout_clear(r) ==
  /\ pc[r] = "clear"
  /\ cart' = [cart EXCEPT ![sess[r]] = clear_cart(cart[sess[r]])]
  /\ pc' = [pc EXCEPT ![r] = "idle"]
  /\ ResetReq(r)
  /\ UNCHANGED <<dbVars, envVars>>

\* a persistence call of the request raises (I/O error, database is locked, ...):
\* checkout() is left, the objects pending in its db.session are never written,
\* and its transaction stays open until the teardown
checkout_fail(r) ==
  /\ pc[r] \in {"flush", "items", "commit"}
  /\ pc' = [pc EXCEPT ![r] = "PersistenceError"]
  /\ txItems' = [txItems EXCEPT ![r] = <<>>]
  /\ txProducts' = [txProducts EXCEPT ![r] = EmptyDict]
  /\ UNCHANGED <<sess, reqCart, reqSettings, totals, txOrder,
                 dbVars, cart, envVars>>

\* the exception ends the request: its db.session is removed, which rolls back
checkout_teardown(r) ==
  /\ pc[r] \in {"IntegrityError", "PersistenceError"}
  /\ pc' = [pc EXCEPT ![r] = "idle"]
  /\ ResetReq(r)
  /\ UNCHANGED <<dbVars, cart, envVars>>

\* --------------------------------------------- products, app/admin.py
\* SQLite admits one writer: a commit waits while a checkout holds the write lock
WriteLockFree == engine = "sqlite" => \A q \in Reqs : ~InTx(q)

\* form.<field>.data or None
OrNone(x) == IF Truthy(x) THEN x ELSE {}

\* the ProductForm the admin submits for product p
EditForms(p) ==
  {[name             |-> "renamed",
    sku              |-> "ref-" \o PidStr(p),
    original_price   |-> 4000,
    discounted_price |-> {0},
    deal_price       |-> {3500},
    category_id      |-> {c},
    stock            |-> st] : st \in 0..MaxStock, c \in 0..NumCategories}

\* POST /admin/products/edit/<product_id> with a valid form; the admin leaves
\* the stock field and the category as the form showed them
product_edit(product_id, form) ==
  /\ product_id \in DOMAIN products
  /\ form.stock = products[product_id].stock
  /\ OrNone(form.category_id) = products[product_id].category_id
  /\ WriteLockFree
  /\ products' = [products EXCEPT ![product_id] =
                    [@ EXCEPT !.name             = form.name,
                              !.sku              = IF form.sku = "" THEN {} ELSE {form.sku},
                              !.category_id      = OrNone(form.category_id),
                              !.original_price   = form.original_price,
                              !.discounted_price = OrNone(form.discounted_price),
                              !.deal_price       = OrNone(form.deal_price),
                              !.stock            = form.stock]]
  /\ products' # products
  /\ UNCHANGED <<orders, order_items, cart, reqVars, envVars>>

\* db.session.delete(product): Product.order_items has no delete cascade and
\* OrderItem.product_id is nullable, so the items of the product are kept and
\* their product_id is set to NULL
order_items_cascade(product_id) ==
  {i \in order_items : i.product_id # {product_id}}

order_items_after_delete(product_id) ==
  {IF i.product_id = {product_id} THEN [i EXCEPT !.product_id = {}] ELSE i :
     i \in order_items}

\* POST /admin/products/delete/<product_id>
product_delete(product_id) ==
  /\ product_id \in DOMAIN products
  /\ WriteLockFree
  /\ products' = [p \in (DOMAIN products) \ {product_id} |-> products[p]]
  /\ order_items' = order_items_after_delete(product_id)
  /\ UNCHANGED <<orders, cart, reqVars, envVars>>

\* ------------------------------------------------------- specification
Next ==
  \/ \E s \in Sessions, p \in Products, q \in QtyInputs : cart_add(s, p, q)
  \/ \E s \in Sessions, p \in Products, q \in QtyInputs : cart_update(s, p, q)
  \/ \E s \in Sessions, p \in Products : cart_remove(s, p)
  \/ \E s \in Sessions : checkout_empty(s)
  \/ \E s \in Sessions : checkout_render(s)
  \/ \E r \in Reqs, s \in Sessions : checkout_begin(r, s)
  \/ \E r \in Reqs : checkout_flush(r)
  \/ \E r \in Reqs : checkout_item(r)
  \/ \E r \in Reqs : checkout_commit(r)
  \/ \E r \in Reqs : checkout_clear(r)
  \/ \E r \in Reqs : checkout_fail(r)
  \/ \E r \in Reqs : checkout_teardown(r)

Spec == Init /\ [][Next]_vars

\* the storefront with the admin at work on the catalogue: product edits and
\* deletions fall between the steps of the visitor and of the checkout; the
\* visitor is followed up to the first order, the admin beyond it
AdminReqs == {1}

NoOrderYet == orders = {}

NextAdmin ==
  \/ \E s \in Sessions, p \in Products, q \in QtyInputs :
       NoOrderYet /\ cart_add(s, p, q)
  \/ \E s \in Sessions, p \in Products, q \in QtyInputs :
       NoOrderYet /\ cart_update(s, p, q)
  \/ \E s \in Sessions, p \in Products : NoOrderYet /\ cart_remove(s, p)
  \/ \E s \in Sessions : checkout_empty(s)
  \/ \E s \in Sessions : checkout_render(s)
  \/ \E r \in AdminReqs, s \in Sessions : NoOrderYet /\ checkout_begin(r, s)
  \/ \E r \in AdminReqs : checkout_flush(r)
  \/ \E r \in AdminReqs : checkout_item(r)
  \/ \E r \in AdminReqs : checkout_commit(r)
  \/ \E r \in AdminReqs : checkout_clear(r)
  \/ \E r \in AdminReqs : checkout_fail(r)
  \/ \E r \in AdminReqs : checkout_teardown(r)
  \/ \E p \in Products : \E form \in EditForms(p) : product_edit(p, form)
  \/ \E p \in Products : product_delete(p)

SpecAdmin == Init /\ [][NextAdmin]_vars

\* ------------------------------- orders, categories, settings: app/admin.py
\* ORDER_STATUSES
ORDER_STATUSES == {"pending", "confirmed", "processing", "shipped",
                   "delivered", "cancelled", "refunded"}

\* the OrderStatusForm the admin submits: any choice of the status select
OrderStatusForms ==
  [status          : ORDER_STATUSES,
   tracking_number : {"TRK-1"},
   admin_notes     : {"checked"}]

\* the row order_detail leaves for the order
updated_order_requoted(order, form) ==
  [order EXCEPT !.status          = form.status,
                !.tracking_number = {form.tracking_number},
                !.admin_notes     = {form.admin_notes},
                !.delivery_cost   = Decimal(settings.delivery_cost),
                !.total_amount    = order.subtotal + Decimal(settings.delivery_cost)]

updated_order(order, form) ==
  [order EXCEPT !.status          = form.status,
                !.tracking_number = {form.tracking_number},
                !.admin_notes     = {form.admin_notes}]

\* POST /admin/orders/<order_id> with a valid form
order_detail_legal(order_id, form) ==
  /\ WriteLockFree
  /\ \E order \in orders :
       /\ order.id = order_id
       /\ <<order.status, form.status>> \in
            {<<"pending", "confirmed">>, <<"pending", "cancelled">>,
             <<"confirmed", "processing">>, <<"confirmed", "cancelled">>,
             <<"processing", "shipped">>, <<"processing", "cancelled">>,
             <<"shipped", "delivered">>, <<"shipped", "refunded">>,
             <<"delivered", "refunded">>}
       /\ orders' = (orders \ {order}) \cup {updated_order(order, form)}
  /\ UNCHANGED <<products, order_items, cart, reqVars, envVars>>

order_detail(order_id, form) ==
  /\ WriteLockFree
  /\ \E order \in orders :
       /\ order.id = order_id
       /\ orders' = (orders \ {order}) \cup {updated_order(order, form)}
  /\ UNCHANGED <<products, order_items, cart, reqVars, envVars>>

\* the values the admin types into the two delivery fields of SiteSettingsForm
DeliveryInputs ==
  [delivery_cost           |-> {<<"0", ".", "0", "0">>, <<"7", ".", "5", "0">>},
   free_delivery_threshold |-> {<<"2", "0", ".", "0", "0">>}]

\* str(form.<field>.data or "0")
SettingStr(data) == IF Decimal(data) = 0 THEN <<"0">> ELSE data

\* SiteSettings.set(key, value): the row is written and committed. settings()
\* calls it once per key, so each key of a submitted form is its own commit
SiteSettings_set(key, value) ==
  /\ WriteLockFree
  /\ settings' = [settings EXCEPT ![key] = value]
  /\ settings' # settings
  /\ UNCHANGED <<dbVars, cart, reqVars, engine, categories, call, ret>>

\* POST /admin/categories/delete/<cat_id>: Category.products cascades
\* "all, delete-orphan", so the products of the category are deleted with it,
\* each as product_delete deletes it
category_delete(cat_id) ==
  /\ cat_id \in categories
  /\ WriteLockFree
  /\ LET children == {p \in DOMAIN products : products[p].category_id = {cat_id}}
     IN  /\ products' = [p \in (DOMAIN products) \ children |-> products[p]]
         /\ order_items' =
              {IF \E p \in children : i.product_id = {p}
                 THEN [i EXCEPT !.product_id = {}] ELSE i : i \in order_items}
  /\ categories' = categories \ {cat_id}
  /\ UNCHANGED <<orders, cart, reqVars, engine, settings, call, ret>>

\* the back office at work on a store that holds an order: the visitor is
\* followed up to the first order; then the admin updates the order, edits
\* products, saves delivery settings and deletes categories
HasOrder == orders # {}

NextBackOffice ==
  \/ \E s \in Sessions, p \in Products, q \in QtyInputs :
       NoOrderYet /\ cart_add(s, p, q)
  \/ \E r \in AdminReqs, s \in Sessions : NoOrderYet /\ checkout_begin(r, s)
  \/ \E r \in AdminReqs : checkout_flush(r)
  \/ \E r \in AdminReqs : checkout_item(r)
  \/ \E r \in AdminReqs : checkout_commit(r)
  \/ \E r \in AdminReqs : checkout_clear(r)
  \/ \E o \in orders, form \in OrderStatusForms : order_detail(o.id, form)
  \/ \E p \in Products : \E form \in EditForms(p) : HasOrder /\ product_edit(p, form)
  \/ \E key \in DOMAIN DeliveryInputs : \E data \in DeliveryInputs[key] :
       HasOrder /\ SiteSettings_set(key, SettingStr(data))
  \/ \E c \in Categories : HasOrder /\ category_delete(c)

SpecBackOffice == Init /\ [][NextBackOffice]_vars

\* ------------------------------------- functions called on their own
\* prices and names the calls are made with
FnPrices == {550, 1000, 2500}
FnNames  == {"product-1", "renamed"}
FnImages == {"", "ring.jpg"}

\* the entries a session cart may hold for product p
FnEntries(p) ==
  {[name |-> "product-" \o PidStr(p), price |-> DecimalStr(c), image |-> "", qty |-> q] :
     c \in FnPrices, q \in QtyInputs}

\* session carts: a dict from str(product_id) to an entry
FnCarts ==
  UNION {{c \in [K -> UNION {FnEntries(p) : p \in Products}] :
            \A k \in K : c[k] \in FnEntries(PidInt(k))} : K \in SUBSET Keys}

\* values of the delivery_cost and free_delivery_threshold settings
FnCosts      == {<<>>, <<"0">>, <<"5", ".", "0", "0">>}
FnThresholds == {<<>>, <<"0">>, <<"2", "5", ".", "5", "0">>, <<"5", "0", ".", "0", "0">>}

\* price columns of a product row
FnProducts ==
  [original_price   : {0, 3000, 10000},
   discounted_price : {{}, {0}, {8000}, {10000}},
   deal_price       : {{}, {0}, {1000}, {9000}, {12000}}]

Calls ==
  [fn : {"cart_totals"}, c : FnCarts, cost : FnCosts, threshold : FnThresholds]
  \cup [fn : {"add_to_cart"}, c : FnCarts, product_id : Products, name : FnNames,
        price : FnPrices, image : FnImages, qty : QtyInputs]
  \cup [fn : {"update_cart"}, c : FnCarts, product_id : Products, qty : QtyInputs]
  \cup [fn : {"active_price", "discount_percent"}, product : FnProducts]

InitFn ==
  /\ engine = "sqlite"
  /\ settings = SeedSettings
  /\ categories = Categories
  /\ products = [p \in Products |-> Catalogue(p, 0)]
  /\ orders = {}
  /\ order_items = {}
  /\ cart = [s \in Sessions |-> EmptyDict]
  /\ pc = [r \in Reqs |-> "idle"]
  /\ sess = [r \in Reqs |-> 1]
  /\ reqCart = [r \in Reqs |-> EmptyDict]
  /\ reqSettings = [r \in Reqs |-> SeedSettings]
  /\ totals = [r \in Reqs |-> NoTotals]
  /\ txOrder = [r \in Reqs |-> <<>>]
  /\ txItems = [r \in Reqs |-> <<>>]
  /\ txProducts = [r \in Reqs |-> EmptyDict]
  /\ call \in Calls
  /\ ret = <<>>

Returns(result) ==
  /\ ret = <<>>
  /\ ret' = <<result>>
  /\ UNCHANGED <<dbVars, reqVars, cart, engine, settings, categories, call>>

call_cart_totals ==
  /\ call.fn = "cart_totals"
  /\ Returns(cart_totals(call.c, call.cost, call.threshold))

call_add_to_cart ==
  /\ call.fn = "add_to_cart"
  /\ Returns(add_to_cart(call.c, call.product_id, call.name, call.price,
                         call.image, call.qty))

call_update_cart ==
  /\ call.fn = "update_cart"
  /\ Returns(update_cart(call.c, call.product_id, call.qty))

call_active_price ==
  /\ call.fn = "active_price"
  /\ Returns(active_price(call.product))

call_discount_percent ==
  /\ call.fn = "discount_percent"
  /\ Returns(discount_percent(call.product))

NextFn ==
  \/ call_cart_totals
  \/ call_add_to_cart
  \/ call_update_cart
  \/ call_active_price
  \/ call_discount_percent

SpecFn == InitFn /\ [][NextFn]_vars

\* ------------------------------------------------------------ claims
ItemsOf(id) == {i \in order_items : i.order_id = id}

\* the row of an order item without its primary key
Line(i) == [order_id     |-> i.order_id,
            product_id   |-> i.product_id,
            product_name |-> i.product_name,
            product_sku  |-> i.product_sku,
            unit_price   |-> i.unit_price,
            quantity     |-> i.quantity,
            line_total   |-> i.line_total]

\* the stocks request r changed in its db.session
StockWrites(r) == {p \in DOMAIN txProducts[r] :
                     txProducts[r][p].stock # txProducts[r][p].loaded}

\* no order without its items, no item without its order, and nothing of an
\* uncommitted or failed checkout in the tables
C1_NoPartialState ==
  /\ \A o \in orders : ItemsOf(o.id) # {}
  /\ \A i \in order_items : \E o \in orders : o.id = i.order_id
  /\ \A r \in Reqs :
       (pc[r] \in {"items", "commit", "IntegrityError", "PersistenceError"}
        /\ txOrder[r] # <<>>) =>
         /\ txOrder[r][1] \notin orders
         /\ ItemsOf(txOrder[r][1].id) = {}

\* a step of a checkout either leaves the three tables as they are, or it is the
\* commit and writes the order, one item per cart line and every changed stock
C1_AllOrNothingStep ==
  \A r \in Reqs :
    pc'[r] # pc[r] =>
      \/ UNCHANGED <<products, orders, order_items>>
      \/ /\ pc[r] = "commit"
         /\ orders' = orders \cup {txOrder[r][1]}
         /\ txOrder[r][1] \notin orders
         /\ order_items \subseteq order_items'
         /\ {Line(i) : i \in order_items' \ order_items}
              = {txItems[r][n] : n \in 1..Len(txItems[r])}
         /\ Cardinality(order_items' \ order_items) = Cardinality(DOMAIN reqCart[r])
         /\ \A p \in DOMAIN products :
              products'[p].stock = IF p \in StockWrites(r)
                                     THEN txProducts[r][p].stock
                                     ELSE products[p].stock

\* C1: checkout is all-or-nothing on the store: in every state, and after a
\* failure at any step, an order is persisted together with all of its items and
\* stock decrements, or nothing of it is persisted
C1_CheckoutAtomic == []C1_NoPartialState /\ [][C1_AllOrNothingStep]_vars

\* a checkout failed after its order row was flushed, beside a committed order
\* of two lines
C1_Witness ==
  /\ \E r \in Reqs : pc[r] = "PersistenceError" /\ txOrder[r] # <<>>
  /\ \E o \in orders : Cardinality(ItemsOf(o.id)) = 2

\* C2: concurrent checkouts serialize their stock decrements: every commit
\* applies its floor-at-zero decrement to the stock the commit before it left, so
\* two committed checkouts end at the stock of the two decrements applied one
\* after the other and no decrement is lost (stated for the lines of a
\* quantity > 0)
C2_DecrementsSerialized ==
  [][\A r \in Reqs :
       (pc[r] = "commit" /\ pc'[r] = "clear") =>
         \A k \in DOMAIN reqCart[r] :
           (PidInt(k) \in DOMAIN products /\ reqCart[r][k].qty > 0) =>
             products'[PidInt(k)].stock
               = decrement_stock(products[PidInt(k)].stock, reqCart[r][k].qty)]_vars

\* C3: the stock of every product is >= 0 in every reachable state
C3_StockNonNegative == \A p \in DOMAIN products : products[p].stock >= 0

\* a committed checkout ordered more of a tracked product than its stock held,
\* and the stock stands at 0
C3_Witness ==
  \E r \in Reqs : \E k \in DOMAIN reqCart[r] :
    /\ pc[r] = "clear"
    /\ PidInt(k) \in DOMAIN txProducts[r]
    /\ txProducts[r][PidInt(k)].loaded > 0
    /\ reqCart[r][k].qty > txProducts[r][PidInt(k)].loaded
    /\ products[PidInt(k)].stock = 0

\* C4: the cart is emptied exactly when the order has committed: the one step of
\* a checkout that changes the cart is the one after its commit, which empties
\* the cart of its session; every other step, a failure and its teardown
\* included, leaves every cart as it was
C4_CartClearedOnCommitOnly ==
  [][\A r \in Reqs :
       pc'[r] # pc[r] =>
         IF pc[r] = "clear"
           THEN /\ txOrder[r][1] \in orders
                /\ cart' = [cart EXCEPT ![sess[r]] = EmptyDict]
                /\ pc'[r] = "idle"
           ELSE /\ cart' = cart
                /\ pc'[r] = "clear" => txOrder[r][1] \in orders']_vars

\* a checkout has failed inside its transaction and waits for its teardown, its
\* cart still as the request loaded it, after an earlier checkout went through
C4_Witness ==
  /\ orders # {}
  /\ \E r \in Reqs :
       /\ pc[r] = "PersistenceError"
       /\ txOrder[r] # <<>>
       /\ reqCart[r] # EmptyDict
       /\ cart[sess[r]] = reqCart[r]

\* C5: no two persisted orders have the same order number
C5_OrderNumbersUnique ==
  \A o1 \in orders : \A o2 \in orders :
    o1.order_number = o2.order_number => o1 = o2

\* the generator returned the number of a persisted order and the store refused
\* the second row
C5_Witness ==
  /\ orders # {}
  /\ \E r \in Reqs : pc[r] = "IntegrityError" /\ txOrder[r] = <<>>

\* C6: a checkout whose order number collides retries with a new candidate
\* instead of failing: it fails on a collision only after more than one attempt
\* (the bound suggested is 10)
C6_RetriesBeforeFailing ==
  \A r \in Reqs : pc[r] = "IntegrityError" => OrderNumberAttempts > 1

\* C7: no cart entry has a quantity <= 0
C7_CartQuantitiesPositive ==
  \A s \in Sessions : \A k \in DOMAIN cart[s] : cart[s][k].qty > 0

\* C8: cart_add with a quantity <= 0 is rejected and leaves the cart unchanged
C8_AddRejectsNonPositive ==
  [][\A s \in Sessions : \A p \in Products : \A q \in QtyInputs :
       (q <= 0 /\ cart_add(s, p, q)) => cart' = cart]_vars

\* C9: every order created by checkout carries the subtotal, delivery cost and
\* total of the quote computed for the cart at checkout, a discount of 0, and
\* total_amount = subtotal + delivery_cost - discount_amount
C9_OrderCarriesQuote ==
  /\ \A o \in orders :
       /\ o.discount_amount = 0
       /\ o.total_amount = o.subtotal + o.delivery_cost - o.discount_amount
  /\ \A r \in Reqs :
       pc[r] \in {"items", "commit", "clear"} =>
         /\ totals[r] = cart_totals(reqCart[r], reqSettings[r].delivery_cost,
                                    reqSettings[r].free_delivery_threshold)
         /\ txOrder[r][1].subtotal = totals[r].subtotal
         /\ txOrder[r][1].delivery_cost = totals[r].delivery
         /\ txOrder[r][1].total_amount = totals[r].total
         /\ txOrder[r][1].discount_amount = 0
         /\ txOrder[r][1].total_amount
              = txOrder[r][1].subtotal + txOrder[r][1].delivery_cost
         /\ pc[r] = "clear" => txOrder[r][1] \in orders

\* one persisted order was delivered free, another was charged the delivery cost
C9_Witness ==
  /\ \E o \in orders : o.delivery_cost = 0 /\ o.subtotal > 0
  /\ \E o \in orders : o.delivery_cost > 0 /\ o.total_amount > o.subtotal

\* C10: the line totals of an order's items add up to the order's subtotal, and
\* every line total is the unit price times the quantity
C10_LineTotalsSumToSubtotal ==
  /\ \A o \in orders :
       SumOver(ItemsOf(o.id), [i \in ItemsOf(o.id) |-> i.line_total]) = o.subtotal
  /\ \A i \in order_items : i.line_total = i.unit_price * i.quantity

\* a persisted order has two items with different line totals
C10_Witness ==
  \E o \in orders : \E i \in ItemsOf(o.id) : \E j \in ItemsOf(o.id) :
    /\ i.line_total # j.line_total
    /\ i.quantity = 2
    /\ j.line_total # 0

\* C11: an order item carries the name and price the cart entry captured when
\* the product was added, not those of the live product at checkout, and the SKU
\* of the live product at checkout: a cart entry takes its name and price from
\* the product when it is created and keeps them through every later step
\* (product edits included), the checkout works on the cart as it stands, builds
\* each item from the entry's name and price and the live product's SKU, and
\* persists the items as built
C11_ItemSnapshotsCartEntry ==
  [][/\ \A s \in Sessions :
          /\ \A k \in (DOMAIN cart[s]) \cap (DOMAIN cart'[s]) :
               /\ cart'[s][k].name = cart[s][k].name
               /\ cart'[s][k].price = cart[s][k].price
          /\ \A k \in (DOMAIN cart'[s]) \ (DOMAIN cart[s]) :
               /\ PidInt(k) \in DOMAIN products
               /\ cart'[s][k].name = products[PidInt(k)].name
               /\ Decimal(cart'[s][k].price) = active_price(products[PidInt(k)])
     /\ \A r \in Reqs :
          /\ (pc[r] = "idle" /\ pc'[r] = "flush") => reqCart'[r] = cart[sess'[r]]
          /\ pc[r] # "idle" /\ pc'[r] # "idle" => reqCart'[r] = reqCart[r]
          /\ Len(txItems'[r]) = Len(txItems[r]) + 1 =>
               LET k  == KeySeq(DOMAIN reqCart[r])[Len(txItems'[r])]
                   oi == txItems'[r][Len(txItems'[r])]
               IN  /\ oi.product_name = reqCart[r][k].name
                   /\ oi.unit_price = Decimal(reqCart[r][k].price)
                   /\ PidInt(k) \in DOMAIN products =>
                        oi.product_sku = products[PidInt(k)].sku
          /\ (pc[r] = "commit" /\ pc'[r] = "clear") =>
               {Line(i) : i \in order_items' \ order_items}
                 = {txItems[r][n] : n \in 1..Len(txItems[r])}]_vars

\* a persisted item of a product that was edited between the add and the
\* checkout: its name and price are not the live ones, its SKU is the edited one
C11_Witness ==
  \E i \in order_items : \E p \in DOMAIN products :
    /\ i.product_id = {p}
    /\ i.product_name = "product-" \o PidStr(p)
    /\ products[p].name = "renamed"
    /\ i.unit_price # active_price(products[p])
    /\ i.product_sku = {"ref-" \o PidStr(p)}
    /\ i.product_sku = products[p].sku

\* C12: a cart line whose product was deleted before the checkout does not stop
\* the order: its item has the cart's name and price, a null product id and a
\* null SKU, no stock is loaded or changed for it, the loop goes on to the next
\* line, the lines of live products get their product id and their decrement,
\* and the commit persists one item per cart line
C12_VanishedProductLine ==
  [][\A r \in Reqs :
       /\ Len(txItems'[r]) = Len(txItems[r]) + 1 =>
            LET k   == KeySeq(DOMAIN reqCart[r])[Len(txItems'[r])]
                oi  == txItems'[r][Len(txItems'[r])]
                pid == PidInt(k)
            IN  /\ pc'[r] \in {"items", "commit"}
                /\ oi.quantity = reqCart[r][k].qty
                /\ pid \notin DOMAIN products =>
                     /\ oi.product_id = {}
                     /\ oi.product_sku = {}
                     /\ oi.product_name = reqCart[r][k].name
                     /\ oi.unit_price = Decimal(reqCart[r][k].price)
                     /\ txProducts'[r] = txProducts[r]
                /\ pid \in DOMAIN products =>
                     /\ oi.product_id = {pid}
                     /\ txProducts'[r][pid].stock
                          = decrement_stock(products[pid].stock, reqCart[r][k].qty)
       /\ (pc[r] = "commit" /\ pc'[r] = "clear") =>
            /\ Cardinality(order_items' \ order_items) = Cardinality(DOMAIN reqCart[r])
            /\ txOrder[r][1] \in orders'
            /\ \A p \in DOMAIN products :
                 p \notin DOMAIN txProducts[r] => products'[p] = products[p]]_vars

\* an order of two lines is persisted: the line of the deleted product has no
\* product id and no SKU, the other line has both and its stock was decremented
C12_Witness ==
  \E o \in orders : \E i \in ItemsOf(o.id) : \E j \in ItemsOf(o.id) :
    /\ i.product_id = {} /\ i.product_sku = {} /\ i.quantity > 0
    /\ i.product_name = "product-2"
    /\ 2 \notin DOMAIN products
    /\ j.product_id = {1} /\ j.product_sku # {} /\ j.quantity = 1
    /\ 1 \in DOMAIN products /\ products[1].stock = MaxStock - 1
    /\ \E r \in Reqs : pc[r] = "clear" /\ txOrder[r] = <<o>> /\ DOMAIN txProducts[r] = {1}

\* C20: deleting a product neither deletes nor alters the snapshot of the order
\* items that reference it: across the deletion every item stays under its
\* order with the same name, SKU, unit price, quantity and line total, its
\* product id is kept or becomes null, and no item or order is added or removed
C20_DeleteKeepsOrderItems ==
  [][(DOMAIN products' # DOMAIN products) =>
       /\ orders' = orders
       /\ Cardinality(order_items') = Cardinality(order_items)
       /\ \A i \in order_items : \E j \in order_items' :
            /\ j.id = i.id
            /\ j.order_id = i.order_id
            /\ j.product_name = i.product_name
            /\ j.product_sku = i.product_sku
            /\ j.unit_price = i.unit_price
            /\ j.quantity = i.quantity
            /\ j.line_total = i.line_total
            /\ j.product_id \in {i.product_id, {}}]_vars

\* the product of a persisted item has been deleted: the item is still there
\* with the SKU it was ordered under, and its product id is null
C20_Witness ==
  \E i \in order_items :
    /\ i.product_id = {}
    /\ i.product_sku = {"sku-1"}
    /\ i.product_name = "product-1"
    /\ i.unit_price = 2500
    /\ i.line_total = i.unit_price * i.quantity
    /\ \E o \in orders : o.id = i.order_id
    /\ 1 \notin DOMAIN products

\* no request is past the empty-cart test with an empty cart, so no order row,
\* order number, item or stock write comes from an empty cart
C13_NoCheckoutOfEmptyCart ==
  /\ \A r \in Reqs : pc[r] # "idle" => reqCart[r] # EmptyDict
  /\ \A r \in Reqs : txOrder[r] # <<>> => reqCart[r] # EmptyDict
  /\ \A o \in orders : ItemsOf(o.id) # {}

\* a request enters the checkout only on a non-empty cart; while the cart of a
\* session is empty and none of its checkouts is under way, no step changes the
\* orders, the items or the stocks
C13_EmptyCartStep ==
  /\ \A r \in Reqs :
       (pc[r] = "idle" /\ pc'[r] # "idle") => cart[sess'[r]] # EmptyDict
  /\ ((\A s \in Sessions : cart[s] = EmptyDict) /\ (\A r \in Reqs : pc[r] = "idle"))
       => UNCHANGED <<products, orders, order_items, reqVars>>

\* C13: a checkout with an empty cart is rejected without side effects: it
\* creates no order and no item, changes no stock and draws no order number
C13_EmptyCartRejected == []C13_NoCheckoutOfEmptyCart /\ [][C13_EmptyCartStep]_vars

\* the cart is empty after an order went through and no request is under way: a
\* checkout submitted now meets the empty cart
C13_Witness ==
  /\ \A s \in Sessions : cart[s] = EmptyDict
  /\ \A r \in Reqs : pc[r] = "idle"
  /\ orders # {}
  /\ \E p \in DOMAIN products : products[p].stock > 0

\* the amount a setting string stands for, in cents ("" counts as 0)
SettingValue(str) == IF str = <<>> THEN 0 ELSE Decimal(str)

\* C14: the delivery fee of a quote is 0 when the threshold is > 0 and the
\* subtotal reaches it, and the delivery cost otherwise (for a delivery cost
\* > 0 the fee is 0 exactly in that case); with a threshold of 0 the fee is the
\* delivery cost for every subtotal, and so it is for an empty cart
C14_DeliveryFee ==
  (call.fn = "cart_totals" /\ ret # <<>>) =>
    LET cost == SettingValue(call.cost)
        thr  == SettingValue(call.threshold)
        free == thr > 0 /\ ret[1].subtotal >= thr
    IN  /\ free => ret[1].delivery = 0
        /\ ~free => ret[1].delivery = cost
        /\ cost > 0 => (ret[1].delivery = 0 <=> free)
        /\ thr = 0 => ret[1].delivery = cost
        /\ call.c = EmptyDict => ret[1].delivery = cost

\* a quote with a threshold of 0 for a cart worth more than any threshold in
\* use: the delivery cost is charged
C14_Witness ==
  /\ call.fn = "cart_totals" /\ ret # <<>>
  /\ call.threshold = <<"0">>
  /\ call.cost = <<"5", ".", "0", "0">>
  /\ ret[1].subtotal >= 5000
  /\ ret[1].delivery = 500

\* the unit price of a cart entry in cents: the price whose string the entry holds
EntryCents(e) == CHOOSE x \in FnPrices : DecimalStr(x) = e.price

\* C15: a quote has subtotal = the sum over the entries of unit price x
\* quantity, item_count = the sum over the entries of quantity, and
\* total = subtotal + delivery fee
C15_QuoteSums ==
  (call.fn = "cart_totals" /\ ret # <<>>) =>
    LET c == call.c
    IN  /\ ret[1].subtotal
             = SumOver(Keys, [k \in Keys |-> IF k \in DOMAIN c
                                               THEN EntryCents(c[k]) * c[k].qty
                                               ELSE 0])
        /\ ret[1].item_count
             = SumOver(Keys, [k \in Keys |-> IF k \in DOMAIN c THEN c[k].qty ELSE 0])
        /\ ret[1].total = ret[1].subtotal + ret[1].delivery

\* the quote of a cart of 2 x 10.00 and 1 x 5.50 with a delivery cost of 5.00
\* and a threshold of 50.00: subtotal 25.50, 3 items, total 30.50
C15_Witness ==
  /\ call.fn = "cart_totals" /\ ret # <<>>
  /\ DOMAIN call.c = Keys
  /\ \E k \in Keys : EntryCents(call.c[k]) = 1000 /\ call.c[k].qty = 2
  /\ \E k \in Keys : EntryCents(call.c[k]) = 550 /\ call.c[k].qty = 1
  /\ call.cost = <<"5", ".", "0", "0">>
  /\ call.threshold = <<"5", "0", ".", "0", "0">>
  /\ ret[1] = [subtotal |-> 2550, delivery |-> 500, total |-> 3050, item_count |-> 3]

\* a nullable price column is set and not zero
SetNonZero(x) == \E v \in x : v # 0

C18_AddAccumulatesOrCreates ==
  (call.fn = "add_to_cart" /\ ret # <<>>) =>
    LET c   == call.c
        key == PidStr(call.product_id)
        out == ret[1]
    IN  /\ DOMAIN out = (DOMAIN c) \cup {key}
        /\ \A k \in (DOMAIN c) \ {key} : out[k] = c[k]
        /\ key \in DOMAIN c =>
             /\ out[key].qty = c[key].qty + call.qty
             /\ out[key].name = c[key].name
             /\ out[key].price = c[key].price
             /\ out[key].image = c[key].image
        /\ key \notin DOMAIN c =>
             /\ out[key].qty = call.qty
             /\ out[key].name = call.name
             /\ EntryCents(out[key]) = call.price
             /\ out[key].image = call.image

\* a second add of a product, called with another name, price and image than
\* the entry holds: the quantity went up by 1 and the entry kept its own
C18_Witness ==
  /\ call.fn = "add_to_cart" /\ ret # <<>>
  /\ DOMAIN call.c = Keys
  /\ call.qty = 1
  /\ LET key == PidStr(call.product_id)
     IN  /\ call.name # call.c[key].name
         /\ call.price # EntryCents(call.c[key])
         /\ call.image # call.c[key].image
         /\ ret[1][key].qty = call.c[key].qty + 1
         /\ ret[1][key].name = call.c[key].name

\* C19: update with qty <= 0 removes the entry (and does nothing if it is
\* absent); with qty > 0 on an existing entry the quantity becomes qty and the
\* name, price and image stay; with qty > 0 on a product not in the cart nothing
\* is created and the cart is unchanged
C19_SetQuantity ==
  (call.fn = "update_cart" /\ ret # <<>>) =>
    LET c   == call.c
        key == PidStr(call.product_id)
        out == ret[1]
    IN  /\ \A k \in (DOMAIN c) \ {key} : k \in DOMAIN out /\ out[k] = c[k]
        /\ call.qty <= 0 => DOMAIN out = (DOMAIN c) \ {key}
        /\ (call.qty > 0 /\ key \in DOMAIN c) =>
             /\ DOMAIN out = DOMAIN c
             /\ out[key].qty = call.qty
             /\ out[key].name = c[key].name
             /\ out[key].price = c[key].price
             /\ out[key].image = c[key].image
        /\ (call.qty > 0 /\ key \notin DOMAIN c) => out = c

\* an update to qty 0 of one of two entries: the entry is gone, the other stays
C19_Witness ==
  /\ call.fn = "update_cart" /\ ret # <<>>
  /\ call.qty = 0
  /\ DOMAIN call.c = Keys
  /\ DOMAIN ret[1] = Keys \ {PidStr(call.product_id)}
  /\ \A k \in DOMAIN ret[1] : ret[1][k] = call.c[k]

\* C21: a committed checkout sets the stock of each live product in its cart,
\* with stock s > 0 and ordered quantity q, to max(0, s - q), leaves a product
\* whose stock is 0 at 0, and leaves every product not in the cart as it was
\* (the effect on a line is stated for an ordered quantity > 0)
C21_CommitStockEffect ==
  [][\A r \in Reqs :
       (pc[r] = "commit" /\ pc'[r] = "clear") =>
         /\ DOMAIN products' = DOMAIN products
         /\ \A p \in DOMAIN products :
              IF PidStr(p) \in DOMAIN reqCart[r]
                THEN LET s == products[p].stock
                         q == reqCart[r][PidStr(p)].qty
                     IN  /\ (s > 0 /\ q > 0) => products'[p].stock = Max(0, s - q)
                         /\ (s = 0 /\ q > 0) => products'[p].stock = 0
                         /\ products'[p] = [products[p] EXCEPT !.stock = products'[p].stock]
                ELSE products'[p] = products[p]]_vars

\* C22: stock is advisory, not an admission gate: a checkout of a non-empty cart
\* is never stopped by a stock level (the pass over the next cart line and the
\* commit can always be taken), and the order it commits has, for every cart
\* line, an item with the full quantity of the line, also where the quantity
\* exceeds the stock of the product or the stock is 0
C22_StockAdvisory ==
  \A r \in Reqs :
    /\ pc[r] = "items" => ENABLED checkout_item(r)
    /\ pc[r] = "commit" => ENABLED checkout_commit(r)
    /\ pc[r] = "clear" =>
         /\ txOrder[r][1] \in orders
         /\ \A k \in DOMAIN reqCart[r] :
              \E i \in ItemsOf(txOrder[r][1].id) :
                /\ i.product_id = {PidInt(k)}
                /\ i.quantity = reqCart[r][k].qty

\* a committed order of two lines: one for more than the stock its product
\* had, one for a product whose stock was 0
C22_Witness ==
  \E r \in Reqs : \E k1 \in DOMAIN reqCart[r] : \E k2 \in DOMAIN reqCart[r] :
    /\ pc[r] = "clear"
    /\ txOrder[r][1] \in orders
    /\ txProducts[r][PidInt(k1)].loaded > 0
    /\ reqCart[r][k1].qty > txProducts[r][PidInt(k1)].loaded
    /\ txProducts[r][PidInt(k2)].loaded = 0
    /\ reqCart[r][k2].qty > 0

\* C23: a cart is converted into at most one order: two checkout submissions of
\* one session that run concurrently on the same non-empty cart do not both
\* commit an order and decrement stock for it (stated for carts of positive
\* quantities)
C23_CartOrderedOnce ==
  \A r1 \in Reqs : \A r2 \in Reqs \ {r1} :
    ~ /\ sess[r1] = sess[r2]
      /\ reqCart[r1] # EmptyDict
      /\ reqCart[r1] = reqCart[r2]
      /\ \A k \in DOMAIN reqCart[r1] : reqCart[r1][k].qty > 0
      /\ pc[r1] = "clear" /\ pc[r2] = "clear"
      /\ txOrder[r1][1] \in orders /\ txOrder[r2][1] \in orders
      /\ txOrder[r1][1].id # txOrder[r2][1].id

\* C24: checkout never increases a product's stock: whatever cart the add,
\* update and remove requests have built, the stock of every product after a
\* committed checkout is <= its stock before the commit
C24_CheckoutNeverRestocks ==
  [][\A r \in Reqs :
       (pc[r] = "commit" /\ pc'[r] = "clear") =>
         \A p \in (DOMAIN products) \cap (DOMAIN products') :
           products'[p].stock <= products[p].stock]_vars

\* the items of the order request r commits match the entries of its cart one
\* to one, each with the name and the quantity of its entry
C25_ItemsMatchCart(r) ==
  LET new == {i \in order_items' : i.order_id = txOrder[r][1].id}
      ks  == DOMAIN reqCart[r]
  IN  /\ txOrder[r][1] \in orders'
      /\ ks # {}
      /\ Cardinality(new) = Cardinality(ks)
      /\ \E f \in [ks -> new] :
           /\ \A k1 \in ks : \A k2 \in ks : f[k1] = f[k2] => k1 = k2
           /\ \A k \in ks : /\ f[k].product_name = reqCart[r][k].name
                             /\ f[k].quantity = reqCart[r][k].qty

\* C25: every committed order has exactly one order item per entry of the cart
\* it was created from, with the quantity of that entry, and so at least one
\* item: no persisted order has zero items, and no later step adds an item to
\* an order or takes one away
C25_OneItemPerCartEntry ==
  /\ [](\A o \in orders : ItemsOf(o.id) # {})
  /\ [][/\ \A r \in Reqs :
            (pc[r] = "commit" /\ pc'[r] = "clear") => C25_ItemsMatchCart(r)
        /\ \A o \in orders :
            {[id |-> i.id, quantity |-> i.quantity] : i \in ItemsOf(o.id)}
              = {[id |-> i.id, quantity |-> i.quantity] :
                   i \in {j \in order_items' : j.order_id = o.id}}]_vars

\* a persisted order of a cart of two entries with different quantities has its
\* two items, one with each quantity
C25_Witness ==
  \E r \in Reqs : \E k1 \in DOMAIN reqCart[r] : \E k2 \in DOMAIN reqCart[r] :
    /\ pc[r] = "clear"
    /\ reqCart[r][k1].qty = 1 /\ reqCart[r][k2].qty = 2
    /\ Cardinality(ItemsOf(txOrder[r][1].id)) = 2
    /\ \E i \in ItemsOf(txOrder[r][1].id) : i.quantity = 1
    /\ \E i \in ItemsOf(txOrder[r][1].id) : i.quantity = 2

\* the fields of an order and of an order item that are fixed at creation
Money(o) == <<o.id, o.order_number, o.subtotal, o.delivery_cost,
              o.discount_amount, o.total_amount>>

Snapshot(i) == <<i.id, i.order_id, i.product_name, i.unit_price, i.quantity,
                 i.line_total>>

\* C26: once an order is created, its subtotal, delivery cost, discount amount
\* and total amount and the name, unit price, quantity and line total of its
\* items never change: every step keeps them for every persisted order and
\* item, only the commit of a checkout adds any, a step that changes an
\* existing order row (the admin order update) changes nothing but its status,
\* tracking number and admin notes, and so the edits of products and of the
\* delivery settings leave every existing order as it was
C26_OrderImmutable ==
  [][/\ {Money(o) : o \in orders} \subseteq {Money(o) : o \in orders'}
     /\ {Snapshot(i) : i \in order_items}
          \subseteq {Snapshot(i) : i \in order_items'}
     /\ (\A r \in Reqs : ~(pc[r] = "commit" /\ pc'[r] = "clear")) =>
          /\ {Money(o) : o \in orders'} = {Money(o) : o \in orders}
          /\ {Snapshot(i) : i \in order_items'} = {Snapshot(i) : i \in order_items}
     /\ \A o \in orders : \A o2 \in orders' :
          (o2.id = o.id /\ o2 # o) =>
            /\ o2 = [o EXCEPT !.status          = o2.status,
                              !.tracking_number = o2.tracking_number,
                              !.admin_notes     = o2.admin_notes]
            /\ UNCHANGED <<order_items, products, settings>>
     /\ (settings' # settings
         \/ \E p \in (DOMAIN products) \cap (DOMAIN products') :
              active_price(products'[p]) # active_price(products[p])) =>
          UNCHANGED <<orders, order_items>>]_vars

\* an order that was updated by the admin, after which the delivery cost was
\* changed and the product of one of its items was renamed and repriced: the
\* order and the item still carry the amounts of the checkout
C26_Witness ==
  \E o \in orders : \E i \in ItemsOf(o.id) : \E p \in DOMAIN products :
    /\ o.status = "shipped"
    /\ o.tracking_number = {"TRK-1"}
    /\ o.delivery_cost = 500
    /\ Decimal(settings.delivery_cost) = 750
    /\ o.total_amount = o.subtotal + 500
    /\ i.product_id = {p}
    /\ products[p].name = "renamed"
    /\ i.product_name = "product-" \o PidStr(p)
    /\ i.unit_price # active_price(products[p])
    /\ i.line_total = i.unit_price * i.quantity

\* the transition relation of the order status as the specification draws it
StatusTransitions ==
  {<<"pending", "confirmed">>, <<"pending", "cancelled">>,
   <<"confirmed", "processing">>, <<"confirmed", "cancelled">>,
   <<"processing", "shipped">>, <<"processing", "cancelled">>,
   <<"shipped", "delivered">>, <<"shipped", "refunded">>,
   <<"delivered", "refunded">>}

\* an order enters the orders table with status pending
CreatedPending ==
  \A o2 \in orders' : (\A o \in orders : o.id # o2.id) => o2.status = "pending"

\* C27 as stated: the order status starts at pending and every later change
\* follows pending -> {confirmed, cancelled}, confirmed -> {processing,
\* cancelled}, processing -> {shipped, cancelled}, shipped -> {delivered,
\* refunded}, delivered -> {refunded}; cancelled and refunded are terminal
C27_StatusFollowsTransitions ==
  [][/\ CreatedPending
     /\ \A o \in orders : \A o2 \in orders' :
          (o2.id = o.id /\ o2.status # o.status) =>
            <<o.status, o2.status>> \in StatusTransitions]_vars

\* C27, amended: the order status starts at pending; afterwards only an admin
\* order update changes it, it sets the status chosen in its form, and it can
\* set any of the seven statuses from any status, cancelled and refunded
\* included
C27_StatusSetByAdminFreely ==
  /\ [](\A o \in orders :
          /\ o.status \in ORDER_STATUSES
          /\ WriteLockFree =>
               \A form \in OrderStatusForms : ENABLED order_detail(o.id, form))
  /\ [][/\ CreatedPending
        /\ \A o \in orders : \A o2 \in orders' :
             (o2.id = o.id /\ o2.status # o.status) =>
               \E form \in OrderStatusForms :
                 /\ order_detail(o.id, form)
                 /\ o2.status = form.status]_vars

\* a refunded order stands in the table, and the admin can set it to pending
C27_Witness ==
  \E o \in orders :
    /\ o.status = "refunded"
    /\ o.tracking_number = {"TRK-1"}
    /\ ENABLED order_detail(o.id, [status          |-> "pending",
                                   tracking_number |-> "TRK-1",
                                   admin_notes     |-> "checked"])

\* C28: deleting a category unassigns its products instead of deleting them:
\* after the deletion every product that belonged to the category still exists
\* with category_id null and with its stock and prices unchanged
C28_CategoryDeleteUnassigns ==
  [][\A c \in categories \ categories' :
       \A p \in DOMAIN products :
         products[p].category_id = {c} =>
           /\ p \in DOMAIN products'
           /\ products'[p] = [products[p] EXCEPT !.category_id = {}]]_vars

\* C29: active_price returns the best (lowest) price currently applicable: for
\* every combination of original, discounted and deal price the result is the
\* minimum of the price fields that are set and non-zero
C29_ActivePriceIsLowest ==
  (call.fn = "active_price" /\ ret # <<>>) =>
    LET p      == call.product
        prices == {v \in {p.original_price} \cup p.discounted_price
                           \cup p.deal_price : v # 0}
    IN  prices # {} =>
          /\ ret[1] \in prices
          /\ \A v \in prices : ret[1] <= v

====
